---- MODULE Spec2Model ----
(***************************************************************************)
(* Model of the weather storage service of src/app.py: the three Flask     *)
(* routes store_weather_data, list_weather_files and                       *)
(* get_weather_file_content, the bucket they share, and the Python         *)
(* conversions they rely on (float(), strptime, date_range/strftime, the   *)
(* f-string that names the object, json.dumps and json.loads).             *)
(*                                                                         *)
(* Text is a sequence of one-character strings.  A Python float is a       *)
(* record [k, neg, m]: k = "fin" with magnitude m in thousandths and sign  *)
(* neg, or k = "nan".                                                      *)
(***************************************************************************)
EXTENDS Integers, Sequences, FiniteSets, TLC

\* ------------------------------------------------------------------ bounds
\* Number of POST /store-weather-data requests in a behaviour.
MaxStores == 2
\* Largest number of daily steps between Time and TimeEnd of an upstream block.
MaxDays == 1

\* ------------------------------------------------------------- characters
DigitChars == <<"0","1","2","3","4","5","6","7","8","9">>

IsDigit(c) == \E i \in 1..10 : DigitChars[i] = c

DigitVal(c) == (CHOOSE i \in 1..10 : DigitChars[i] = c) - 1

AllDigits(s) == \A i \in 1..Len(s) : IsDigit(s[i])

RECURSIVE ParseNat(_)
ParseNat(s) ==
  IF Len(s) = 0 THEN 0
  ELSE 10 * ParseNat(SubSeq(s, 1, Len(s) - 1)) + DigitVal(s[Len(s)])

RECURSIVE NatToChars(_)
NatToChars(n) ==
  IF n < 10 THEN <<DigitChars[n + 1]>>
  ELSE NatToChars(n \div 10) \o <<DigitChars[(n % 10) + 1]>>

RECURSIVE ZeroPad(_, _)
ZeroPad(s, w) == IF Len(s) >= w THEN s ELSE ZeroPad(<<"0">> \o s, w)

\* Index of the first occurrence of c in s at or after i, 0 when there is none.
RECURSIVE IndexFrom(_, _, _)
IndexFrom(s, c, i) ==
  IF i > Len(s) THEN 0
  ELSE IF s[i] = c THEN i
  ELSE IndexFrom(s, c, i + 1)

\* ----------------------------------------------------------------- floats
Fin(neg, m) == [k |-> "fin", neg |-> neg, m |-> m]
NaN == [k |-> "nan", neg |-> FALSE, m |-> 0]

\* Python truth value of a float: only 0.0 and -0.0 are false.
FloatTruthy(f) == f.k = "nan" \/ f.m # 0

RECURSIVE StripZeros(_)
StripZeros(s) ==
  IF Len(s) > 1 /\ s[Len(s)] = "0" THEN StripZeros(SubSeq(s, 1, Len(s) - 1))
  ELSE s

\* float.__repr__, as the f-string of the object name formats a float.
float_repr(f) ==
  IF f.k = "nan" THEN <<"n","a","n">>
  ELSE (IF f.neg THEN <<"-">> ELSE <<>>)
       \o NatToChars(f.m \div 1000) \o <<".">>
       \o StripZeros(ZeroPad(NatToChars(f.m % 1000), 3))

\* float(str): optional sign, digits with an optional fraction, or "nan".
\* The result is [exc, f]; exc = "" when the text parses.
float_of_chars(s) ==
  LET signed == Len(s) > 0 /\ s[1] \in {"-", "+"}
      neg    == Len(s) > 0 /\ s[1] = "-"
      body   == IF signed THEN Tail(s) ELSE s
      dot    == IndexFrom(body, ".", 1)
      ip     == IF dot = 0 THEN body ELSE SubSeq(body, 1, dot - 1)
      fp     == IF dot = 0 THEN <<>> ELSE SubSeq(body, dot + 1, Len(body))
      fp3    == SubSeq(fp \o <<"0","0","0">>, 1, 3)
  IN  IF body = <<"n","a","n">> THEN [exc |-> "", f |-> NaN]
      ELSE IF AllDigits(ip) /\ AllDigits(fp) /\ Len(ip) + Len(fp) > 0 /\ Len(fp) <= 3
           THEN [exc |-> "", f |-> Fin(neg, 1000 * ParseNat(ip) + ParseNat(fp3))]
           ELSE [exc |-> "ValueError", f |-> NaN]

\* ---------------------------------------------------------- Python values
\* A Python value as the handlers see it: None, a float, a str, a list or a
\* dict (keys in insertion order, items[i] the value under keys[i]).
None == [t |-> "none", f |-> NaN, s |-> <<>>, keys |-> <<>>, items |-> <<>>]
PyFloat(f) == [t |-> "float", f |-> f, s |-> <<>>, keys |-> <<>>, items |-> <<>>]
PyStr(s) == [t |-> "str", f |-> NaN, s |-> s, keys |-> <<>>, items |-> <<>>]
PyList(items) == [t |-> "list", f |-> NaN, s |-> <<>>, keys |-> <<>>, items |-> items]
PyDict(keys, items) == [t |-> "dict", f |-> NaN, s |-> <<>>, keys |-> keys, items |-> items]
PyError == [t |-> "error", f |-> NaN, s |-> <<>>, keys |-> <<>>, items |-> <<>>]

\* Python truth value of None, a str or a number.
Truthy(v) ==
  CASE v.t = "none"  -> FALSE
    [] v.t = "str"   -> Len(v.s) > 0
    [] v.t = "float" -> FloatTruthy(v.f)
    [] OTHER         -> Len(v.items) > 0

\* float(data.get(key)): None raises TypeError, a bad string ValueError.
float(v) ==
  CASE v.t = "none"  -> [exc |-> "TypeError", f |-> NaN]
    [] v.t = "float" -> [exc |-> "", f |-> v.f]
    [] v.t = "str"   -> float_of_chars(v.s)
    [] OTHER         -> [exc |-> "TypeError", f |-> NaN]

\* ------------------------------------------------------------------ dates
IsLeap(y) == (y % 4 = 0 /\ y % 100 # 0) \/ y % 400 = 0

DaysInMonth(y, m) ==
  IF m = 2 THEN (IF IsLeap(y) THEN 29 ELSE 28)
  ELSE IF m \in {4, 6, 9, 11} THEN 30 ELSE 31

\* One field of %m or %d: "1".."9", "01".."09", or two digits up to max.
FieldOK(s, max) ==
  /\ Len(s) \in {1, 2}
  /\ AllDigits(s)
  /\ ParseNat(s) >= 1
  /\ ParseNat(s) <= max

\* datetime.strptime(v, "%Y-%m-%d").date(): [exc, d] with d = <<y, m, d>>.
strptime(v) ==
  LET s  == v.s
      d1 == IndexFrom(s, "-", 1)
      d2 == IF d1 = 0 THEN 0 ELSE IndexFrom(s, "-", d1 + 1)
      ys == SubSeq(s, 1, d1 - 1)
      ms == SubSeq(s, d1 + 1, d2 - 1)
      ds == SubSeq(s, d2 + 1, Len(s))
      bad == [exc |-> "ValueError", d |-> <<0, 0, 0>>]
  IN  IF v.t # "str" THEN [exc |-> "TypeError", d |-> <<0, 0, 0>>]
      ELSE IF d1 = 0 \/ d2 = 0 THEN bad
      ELSE IF ~(Len(ys) = 4 /\ AllDigits(ys) /\ FieldOK(ms, 12) /\ FieldOK(ds, 31)) THEN bad
      ELSE IF ParseNat(ys) < 1 \/ ParseNat(ds) > DaysInMonth(ParseNat(ys), ParseNat(ms)) THEN bad
      ELSE [exc |-> "", d |-> <<ParseNat(ys), ParseNat(ms), ParseNat(ds)>>]

\* date.__gt__
DateGT(a, b) ==
  \/ a[1] > b[1]
  \/ a[1] = b[1] /\ a[2] > b[2]
  \/ a[1] = b[1] /\ a[2] = b[2] /\ a[3] > b[3]

\* The civil date of a day number counted from 1970-01-01.
civil_from_days(z0) ==
  LET z   == z0 + 719468
      era == z \div 146097
      doe == z - era * 146097
      yoe == (doe - doe \div 1460 + doe \div 36524 - doe \div 146096) \div 365
      doy == doe - (365 * yoe + yoe \div 4 - yoe \div 100)
      mp  == (5 * doy + 2) \div 153
      d   == doy - (153 * mp + 2) \div 5 + 1
      m   == IF mp < 10 THEN mp + 3 ELSE mp - 9
      y   == yoe + era * 400 + (IF m <= 2 THEN 1 ELSE 0)
  IN  <<y, m, d>>

\* Timestamp.strftime('%Y-%m-%d') of a UTC instant in epoch seconds.
strftime(t) ==
  LET c == civil_from_days(t \div 86400)
  IN  ZeroPad(NatToChars(c[1]), 4) \o <<"-">> \o ZeroPad(NatToChars(c[2]), 2)
      \o <<"-">> \o ZeroPad(NatToChars(c[3]), 2)

\* date_range with inclusive="both": the end instant is generated too.
RECURSIVE date_range_both(_, _, _)
date_range_both(start, end, freq) ==
  IF start > end THEN <<>>
  ELSE <<start>> \o date_range_both(start + freq, end, freq)

\* pd.date_range(start, end, freq, inclusive="left"): start, start + freq, ...
\* as long as the instant is before end.
RECURSIVE date_range(_, _, _)
date_range(start, end, freq) ==
  IF start >= end THEN <<>>
  ELSE <<start>> \o date_range(start + freq, end, freq)

Map(F(_), s) == [i \in 1..Len(s) |-> F(s[i])]

\* ------------------------------------------------------------------- JSON
RECURSIVE json_dumps(_)
RECURSIVE DumpItems(_, _, _)
\* The elements of a list or the "key": value members of a dict, from index i,
\* joined by ", ".
DumpItems(keys, items, i) ==
  IF i > Len(items) THEN <<>>
  ELSE (IF i > 1 THEN <<",", " ">> ELSE <<>>)
       \o (IF Len(keys) > 0 THEN <<"\"">> \o keys[i] \o <<"\"", ":", " ">> ELSE <<>>)
       \o json_dumps(items[i])
       \o DumpItems(keys, items, i + 1)

\* json.dumps with its default separators; a NaN float is written NaN.
json_dumps(v) ==
  CASE v.t = "float" -> (IF v.f.k = "nan" THEN <<"N","a","N">> ELSE float_repr(v.f))
    [] v.t = "str"   -> <<"\"">> \o v.s \o <<"\"">>
    [] v.t = "list"  -> <<"[">> \o DumpItems(<<>>, v.items, 1) \o <<"]">>
    [] v.t = "dict"  -> <<"{">> \o DumpItems(v.keys, v.items, 1) \o <<"}">>
    [] OTHER         -> <<"n","u","l","l">>

RECURSIVE SkipWs(_, _)
SkipWs(s, i) == IF i <= Len(s) /\ s[i] = " " THEN SkipWs(s, i + 1) ELSE i

\* The end of the number that starts at i: the first index past its characters.
RECURSIVE NumberEnd(_, _)
NumberEnd(s, i) ==
  IF i <= Len(s) /\ (IsDigit(s[i]) \/ s[i] \in {"-", "+", "."}) THEN NumberEnd(s, i + 1)
  ELSE i

\* The JSON decoder: each Parse operator returns [v, i], the value read and the
\* index after it.
ParseString(s, i) ==
  LET j == IndexFrom(s, "\"", i + 1)
  IN  IF j = 0 THEN [v |-> PyError, i |-> Len(s) + 1]
      ELSE [v |-> PyStr(SubSeq(s, i + 1, j - 1)), i |-> j + 1]

\* A number decoder that loses the sign of a negative number.
ParseNumber_unsigned(s, i) ==
  LET j == NumberEnd(s, i)
      r == float_of_chars(SubSeq(s, i, j - 1))
  IN  IF i + 2 <= Len(s) /\ SubSeq(s, i, i + 2) = <<"N","a","N">>
        THEN [v |-> PyFloat(NaN), i |-> i + 3]
      ELSE IF j = i \/ r.exc # "" THEN [v |-> PyError, i |-> Len(s) + 1]
      ELSE [v |-> PyFloat([r.f EXCEPT !.neg = FALSE]), i |-> j]

ParseNumber(s, i) ==
  LET j == NumberEnd(s, i)
      r == float_of_chars(SubSeq(s, i, j - 1))
  IN  IF i + 2 <= Len(s) /\ SubSeq(s, i, i + 2) = <<"N","a","N">>
        THEN [v |-> PyFloat(NaN), i |-> i + 3]
      ELSE IF j = i \/ r.exc # "" THEN [v |-> PyError, i |-> Len(s) + 1]
      ELSE [v |-> PyFloat(r.f), i |-> j]

RECURSIVE ParseValue(_, _)
RECURSIVE ParseElements(_, _, _)
RECURSIVE ParseMembers(_, _, _, _)

\* The elements of a list from the element at i on; acc holds those read.
ParseElements(s, i, acc) ==
  LET r == ParseValue(s, i)
      j == SkipWs(s, r.i)
  IN  IF r.v.t = "error" \/ j > Len(s) THEN [v |-> PyError, i |-> Len(s) + 1]
      ELSE IF s[j] = "," THEN ParseElements(s, j + 1, Append(acc, r.v))
      ELSE IF s[j] = "]" THEN [v |-> PyList(Append(acc, r.v)), i |-> j + 1]
      ELSE [v |-> PyError, i |-> Len(s) + 1]

\* The members of a dict from the member at i0 on; keys and acc hold those read.
ParseMembers(s, i0, keys, acc) ==
  LET i == SkipWs(s, i0)
      k == ParseString(s, i)
      c == SkipWs(s, k.i)
      r == ParseValue(s, c + 1)
      j == SkipWs(s, r.i)
  IN  IF i > Len(s) THEN [v |-> PyError, i |-> i]
      ELSE IF s[i] # "\"" THEN [v |-> PyError, i |-> Len(s) + 1]
      ELSE IF k.v.t = "error" \/ c > Len(s) THEN [v |-> PyError, i |-> Len(s) + 1]
      ELSE IF s[c] # ":" \/ r.v.t = "error" \/ j > Len(s)
        THEN [v |-> PyError, i |-> Len(s) + 1]
      ELSE IF s[j] = ","
        THEN ParseMembers(s, j + 1, Append(keys, k.v.s), Append(acc, r.v))
      ELSE IF s[j] = "}"
        THEN [v |-> PyDict(Append(keys, k.v.s), Append(acc, r.v)), i |-> j + 1]
      ELSE [v |-> PyError, i |-> Len(s) + 1]

ParseValue(s, i0) ==
  LET i == SkipWs(s, i0)
      n == SkipWs(s, i + 1)
  IN  IF i > Len(s) THEN [v |-> PyError, i |-> i]
      ELSE IF s[i] = "{"
        THEN (IF n <= Len(s) /\ s[n] = "}" THEN [v |-> PyDict(<<>>, <<>>), i |-> n + 1]
              ELSE ParseMembers(s, n, <<>>, <<>>))
      ELSE IF s[i] = "["
        THEN (IF n <= Len(s) /\ s[n] = "]" THEN [v |-> PyList(<<>>), i |-> n + 1]
              ELSE ParseElements(s, n, <<>>))
      ELSE IF s[i] = "\"" THEN ParseString(s, i)
      ELSE ParseNumber(s, i)

\* json.loads: the decoded value, or PyError when the text is not JSON.
json_loads(s) ==
  LET r == ParseValue(s, 1)
  IN  IF r.v.t # "error" /\ SkipWs(s, r.i) = Len(s) + 1 THEN r.v ELSE PyError

\* ------------------------------------------------------- names and texts
\* The keys of the stored record, as text.
K_latitude ==
  <<"l","a","t","i","t","u","d","e">>
K_longitude ==
  <<"l","o","n","g","i","t","u","d","e">>
K_start_date ==
  <<"s","t","a","r","t","_","d","a","t","e">>
K_end_date ==
  <<"e","n","d","_","d","a","t","e">>
K_daily_data ==
  <<"d","a","i","l","y","_","d","a","t","a">>
K_date ==
  <<"d","a","t","e">>
K_temperature_2m_max ==
  <<"t","e","m","p","e","r","a","t","u","r","e","_","2","m","_","m","a","x">>
K_temperature_2m_min ==
  <<"t","e","m","p","e","r","a","t","u","r","e","_","2","m","_","m","i","n">>
K_temperature_2m_mean ==
  <<"t","e","m","p","e","r","a","t","u","r","e","_","2","m","_","m","e","a","n">>
K_apparent_temperature_max ==
  <<"a","p","p","a","r","e","n","t","_","t","e","m","p","e","r","a","t","u","r","e","_","m","a","x">>
K_apparent_temperature_min ==
  <<"a","p","p","a","r","e","n","t","_","t","e","m","p","e","r","a","t","u","r","e","_","m","i","n">>
K_apparent_temperature_mean ==
  <<"a","p","p","a","r","e","n","t","_","t","e","m","p","e","r","a","t","u","r","e","_","m","e","a","n">>

\* The six daily variables in the order of params["daily"].
DailyKeys ==
  <<K_temperature_2m_max, K_temperature_2m_min, K_temperature_2m_mean,
    K_apparent_temperature_max, K_apparent_temperature_min, K_apparent_temperature_mean>>

\* dict lookup: the value under key k, None when the key is absent.
Get(d, k) ==
  IF \E i \in 1..Len(d.keys) : d.keys[i] = k
  THEN d.items[CHOOSE i \in 1..Len(d.keys) : d.keys[i] = k]
  ELSE None

\* f"weather_data_{latitude}_{longitude}_{start_date_string}_to_{end_date_string}.json"
file_name_of(latitude, longitude, start_date_string, end_date_string) ==
  <<"w","e","a","t","h","e","r","_","d","a","t","a","_">>
  \o float_repr(latitude) \o <<"_">> \o float_repr(longitude) \o <<"_">>
  \o start_date_string \o <<"_","t","o","_">> \o end_date_string
  \o <<".","j","s","o","n">>

\* --------------------------------------------------------------- upstream
\* What openmeteo.weather_api gives back: it raises, it returns an empty list,
\* or it returns a response whose Daily() block has Time, TimeEnd, Interval
\* and six columns.  NoCall stands for "the upstream was not called".
NoCall ==
  [kind |-> "nocall", Latitude |-> NaN, Longitude |-> NaN, Time |-> 0, TimeEnd |-> 0,
   Interval |-> 0, Variables |-> <<>>]

UpRaise == [NoCall EXCEPT !.kind = "raise"]

UpEmpty == [NoCall EXCEPT !.kind = "empty"]

\* The value of column j on day i; the upstream reports a missing value as NaN.
Value(j, i) == IF j = 6 /\ i = 1 THEN NaN ELSE Fin(j = 4, 1000 * j + 500 * i)

\* A daily block of n steps of one day from 2022-12-31T23:00Z (local midnight
\* of 2023-01-01 at UTC+1) whose column j holds lens[j] values.
Block(n, lens) ==
  [kind |-> "ok", Latitude |-> Fin(FALSE, 52548), Longitude |-> Fin(FALSE, 13408),
   Time |-> 1672527600, TimeEnd |-> 1672527600 + 86400 * n, Interval |-> 86400,
   Variables |-> [j \in 1..6 |-> [i \in 1..lens[j] |-> Value(j, i)]]]

\* Well-formed blocks of 0..MaxDays days, and blocks with one column a value short.
UpstreamOutcomes ==
  {UpRaise, UpEmpty}
  \cup {Block(n, [j \in 1..6 |-> n]) : n \in 0..MaxDays}
  \cup {Block(n, [j \in 1..6 |-> IF j = 1 THEN n - 1 ELSE n]) : n \in 1..MaxDays}

\* --------------------------------------------------------------- requests
S_2023_01_01 == <<"2","0","2","3","-","0","1","-","0","1">>
S_2023_1_3 == <<"2","0","2","3","-","1","-","3">>
S_2023_02_30 == <<"2","0","2","3","-","0","2","-","3","0">>
S_52_52 == <<"5","2",".","5","2">>
S_13_405 == <<"1","3",".","4","0","5">>

\* What a body holds under each key: nothing (None), an empty string, a zero,
\* a value that parses, a date that does not exist.
LatitudeInputs == {None, PyStr(<<>>), PyStr(<<"0">>), PyStr(S_52_52)}
LongitudeInputs == {None, PyFloat(Fin(FALSE, 13405))}
StartDateInputs == {None, PyStr(<<>>), PyStr(S_2023_01_01), PyStr(S_2023_1_3)}
EndDateInputs == {None, PyStr(S_2023_01_01), PyStr(S_2023_1_3), PyStr(S_2023_02_30)}

\* The JSON body of a POST: a dict holding the keys that are present.
Body(lat, lon, sd, ed) ==
  LET all  == << <<K_latitude, lat>>, <<K_longitude, lon>>, <<K_start_date, sd>>,
                 <<K_end_date, ed>> >>
      here == SelectSeq(all, LAMBDA p : p[2].t # "none")
  IN  PyDict([i \in 1..Len(here) |-> here[i][1]], [i \in 1..Len(here) |-> here[i][2]])

Bodies ==
  {Body(lat, lon, sd, ed) : lat \in LatitudeInputs, lon \in LongitudeInputs,
                            sd \in StartDateInputs, ed \in EndDateInputs}

DoesNotExist == <<"d","o","e","s","-","n","o","t","-","e","x","i","s","t",".","j","s","o","n">>

\* The names a GET asks for: the names the stores of these bodies produce, and
\* one that no store produces.
FileNames ==
  {DoesNotExist,
   file_name_of(Fin(FALSE, 52520), Fin(FALSE, 13405), S_2023_01_01, S_2023_01_01),
   file_name_of(Fin(FALSE, 52520), Fin(FALSE, 13405), S_2023_01_01, S_2023_1_3),
   file_name_of(Fin(FALSE, 52520), Fin(FALSE, 13405), S_2023_1_3, S_2023_1_3)}

\* ----------------------------------------------------------------- bucket
\* The bucket is a function from object names to the text stored under them.

\* An upload that has written the object by the time it raises.
upload_written_before_raise(b, name, content, gcs_ok) ==
  [k \in DOMAIN b \cup {name} |-> IF k = name THEN content ELSE b[k]]

\* blob.upload_from_string(content): the object at name is created or
\* overwritten; when the call raises nothing is written.
upload_from_string(b, name, content, gcs_ok) ==
  IF gcs_ok
  THEN [k \in DOMAIN b \cup {name} |-> IF k = name THEN content ELSE b[k]]
  ELSE b

\* An existence test that never finds the blob.
exists_never(b, name) == FALSE

\* blob.exists()
exists(b, name) == name \in DOMAIN b

\* blob.download_as_text()
download_as_text(b, name) == b[name]

\* A listing that stops after the first blob.
list_blobs_first(b) == IF DOMAIN b = {} THEN {} ELSE {CHOOSE k \in DOMAIN b : TRUE}

\* [blob.name for blob in bucket.list_blobs()], as a set
list_blobs(b) == DOMAIN b

\* -------------------------------------------------------------- responses
\* A response: the status, and of the JSON body the "error" text, the
\* "file_name", the decoded record (GET of a file) and the names (list).
Response(status, error) ==
  [status |-> status, error |-> error, file_name |-> <<>>, json |-> None, files |-> {}]

\* The two except clauses of a handler: a ValueError answers 400 with str(e),
\* any other exception 500.
Caught(exc) ==
  IF exc = "ValueError" THEN Response(400, "ValueError")
  ELSE Response(500, "An unexpected error occurred")

\* The daily_data dict of store_weather_data: the dates of the block's
\* half-open range [Time, TimeEnd) in steps of Interval, then the six columns.
daily_data_of(daily) ==
  PyDict(<<K_date>> \o DailyKeys,
         <<PyList(Map(LAMBDA t : PyStr(strftime(t)),
                      date_range(daily.Time, daily.TimeEnd, daily.Interval)))>>
         \o [j \in 1..6 |-> PyList(Map(PyFloat, daily.Variables[j]))])

\* The file_data dict of store_weather_data.
file_data_of(up, start_date_string, end_date_string) ==
  PyDict(<<K_latitude, K_longitude, K_start_date, K_end_date, K_daily_data>>,
         <<PyFloat(up.Latitude), PyFloat(up.Longitude), PyStr(start_date_string),
           PyStr(end_date_string), daily_data_of(up)>>)

\* store_weather_data up to the upload, on body data when the upstream answers
\* up: the response it gives if the upload goes through, the name, the record
\* (file_data) and the text json.dumps(file_data) it hands to the upload, and
\* how far it got (called: the upstream was called; uploading: the upload is
\* attempted).
StoreOutcome(response, file_name, record, called, uploading) ==
  [resp |-> response, file_name |-> file_name, record |-> record,
   content |-> IF uploading THEN json_dumps(record) ELSE <<>>,
   called |-> called, uploading |-> uploading]

store_weather_data(data, up) ==
  LET latitude   == float(Get(data, K_latitude))
      longitude  == float(Get(data, K_longitude))
      start_date_string == Get(data, K_start_date)
      end_date_string   == Get(data, K_end_date)
      start_date_object == strptime(start_date_string)
      end_date_object   == strptime(end_date_string)
      file_data  == file_data_of(up, start_date_string.s, end_date_string.s)
      file_name  == file_name_of(latitude.f, longitude.f, start_date_string.s,
                                 end_date_string.s)
      Stop(response) == StoreOutcome(response, <<>>, None, FALSE, FALSE)
  IN  IF ~Truthy(data) THEN Stop(Response(400, "Invalid JSON payload"))
      ELSE IF latitude.exc # "" THEN Stop(Caught(latitude.exc))
      ELSE IF longitude.exc # "" THEN Stop(Caught(longitude.exc))
      ELSE IF ~(/\ FloatTruthy(latitude.f) /\ FloatTruthy(longitude.f)
                /\ Truthy(start_date_string) /\ Truthy(end_date_string))
        THEN Stop(Response(400, "Missing required parameters"))
      ELSE IF start_date_object.exc # "" THEN Stop(Caught(start_date_object.exc))
      ELSE IF end_date_object.exc # "" THEN Stop(Caught(end_date_object.exc))
      ELSE IF DateGT(start_date_object.d, end_date_object.d)
        THEN Stop(Response(400, "Start date must be before end date"))
      ELSE IF up.kind = "raise"
        THEN StoreOutcome(Caught("OpenMeteoRequestsError"), <<>>, None, TRUE, FALSE)
      ELSE IF up.kind = "empty"
        THEN StoreOutcome(Response(502, "Failed to fetch data from Open-Meteo API"),
                          <<>>, None, TRUE, FALSE)
      ELSE StoreOutcome([Response(200, "") EXCEPT !.file_name = file_name],
                        file_name, file_data, TRUE, TRUE)

\* The response of store_weather_data once the upload has been attempted: the
\* one prepared when it went through, the except clause's when it raised.
after_upload(out, gcs_ok) ==
  IF out.uploading /\ ~gcs_ok THEN Caught("GoogleCloudError") ELSE out.resp

\* The bucket after store_weather_data: the upload, when it is reached.
bucket_after(out, gcs_ok, b) ==
  IF out.uploading
  THEN upload_from_string(b, out.file_name, out.content, gcs_ok)
  ELSE b

\* Every run of store_weather_data up to the upload: a body, what the upstream
\* answered if it was called, and the handler's outcome.
StoreRuns ==
  {[data |-> data, up |-> IF store_weather_data(data, up).called THEN up ELSE NoCall,
    out |-> store_weather_data(data, up)] :
     data \in Bodies, up \in UpstreamOutcomes}

\* list_weather_files: 200 with the names, 500 when the storage client raises.
list_weather_files(gcs_ok, b) ==
  IF ~gcs_ok THEN Response(500, "GoogleCloudError")
  ELSE [Response(200, "") EXCEPT !.files = list_blobs(b)]

\* get_weather_file_content: 404 when the blob does not exist, else 200 with
\* the decoded content; 500 when the storage client or json.loads raises.
get_weather_file_content(file_name, gcs_ok, b) ==
  IF ~gcs_ok THEN Response(500, "GoogleCloudError")
  ELSE IF ~exists(b, file_name) THEN Response(404, "File not found.")
  ELSE LET content == download_as_text(b, file_name)
           decoded == json_loads(content)
       IN  IF decoded.t = "error" THEN Response(500, "JSONDecodeError")
           ELSE [Response(200, "") EXCEPT !.json = decoded]

\* ------------------------------------------------------------------ state
VARIABLES
  bucket,     \* the objects of the GCS bucket: name -> stored text
  req,        \* the last request: its route and inputs
  resp,       \* the response to the last request
  nstores,    \* the number of POST /store-weather-data requests so far
  stored,     \* the file_name of every store that answered 200
  uploaded    \* name -> the file_data of the last store that answered 200 with it

vars == <<bucket, req, resp, nstores, stored, uploaded>>

Request(op, data, file_name, up, gcs) ==
  [op |-> op, data |-> data, file_name |-> file_name, up |-> up, gcs |-> gcs]

\* An empty bucket and no request yet.
Init ==
  /\ bucket = <<>>
  /\ req = Request("none", None, <<>>, NoCall, "nocall")
  /\ resp = Response(0, "")
  /\ nstores = 0
  /\ stored = {}
  /\ uploaded = <<>>

\* POST /store-weather-data: one run of the handler, then the upload, which
\* goes through (gcs_ok) or raises.  The request records what the upstream
\* answered if it was called, and how the upload went if it was attempted.
Store ==
  /\ nstores < MaxStores
  /\ \E run \in StoreRuns, gcs_ok \in BOOLEAN :
       LET out == run.out
           r   == after_upload(out, gcs_ok)
       IN  /\ out.uploading \/ gcs_ok
           /\ bucket' = bucket_after(out, gcs_ok, bucket)
           /\ req' = Request("store", run.data, <<>>, run.up,
                             IF ~out.uploading THEN "nocall"
                             ELSE IF gcs_ok THEN "ok" ELSE "raise")
           /\ resp' = r
           /\ nstores' = nstores + 1
           /\ stored' = IF r.status = 200 THEN stored \cup {r.file_name} ELSE stored
           /\ uploaded' = IF r.status = 200
                          THEN [k \in DOMAIN uploaded \cup {r.file_name} |->
                                  IF k = r.file_name THEN out.record ELSE uploaded[k]]
                          ELSE uploaded

\* GET /list-weather-files
List ==
  /\ \E gcs_ok \in BOOLEAN :
       /\ req' = Request("list", None, <<>>, NoCall, IF gcs_ok THEN "ok" ELSE "raise")
       /\ resp' = list_weather_files(gcs_ok, bucket)
  /\ UNCHANGED <<bucket, nstores, stored, uploaded>>

\* GET /weather-file-content/<file_name>
GetContent ==
  /\ \E file_name \in FileNames, gcs_ok \in BOOLEAN :
       /\ req' = Request("get", None, file_name, NoCall, IF gcs_ok THEN "ok" ELSE "raise")
       /\ resp' = get_weather_file_content(file_name, gcs_ok, bucket)
  /\ UNCHANGED <<bucket, nstores, stored, uploaded>>

Next == Store \/ List \/ GetContent

Spec == Init /\ [][Next]_vars

\* ----------------------------------------------------------------- claims
\* What the claims say about the last request, read off req and resp.
IsStore == req.op = "store"
IsGet == req.op = "get"
IsList == req.op = "list"

ReqLatitude == Get(req.data, K_latitude)
ReqLongitude == Get(req.data, K_longitude)
ReqStart == Get(req.data, K_start_date)
ReqEnd == Get(req.data, K_end_date)

\* A key of the body is absent or empty.
AbsentOrEmpty(v) == v.t = "none" \/ (v.t = "str" /\ v.s = <<>>)

\* A latitude or longitude that parses as a finite number.
ParsesFinite(v) == float(v).exc = "" /\ float(v).f.k = "fin"

\* A date string that is a valid YYYY-MM-DD date.
ValidDate(v) == strptime(v).exc = ""

\* The body is well formed but for the order of its dates.
FourParsed ==
  /\ IsStore
  /\ ~AbsentOrEmpty(ReqLatitude) /\ ~AbsentOrEmpty(ReqLongitude)
  /\ ~AbsentOrEmpty(ReqStart) /\ ~AbsentOrEmpty(ReqEnd)
  /\ ParsesFinite(ReqLatitude) /\ ParsesFinite(ReqLongitude)
  /\ ValidDate(ReqStart) /\ ValidDate(ReqEnd)

StartAfterEnd == DateGT(strptime(ReqStart).d, strptime(ReqEnd).d)

\* A store whose two dates are valid and denote the same day.
EqualDates ==
  /\ IsStore /\ ValidDate(ReqStart) /\ ValidDate(ReqEnd)
  /\ strptime(ReqStart).d = strptime(ReqEnd).d

\* The arrays of a stored record.
DatesOf(record) == Get(Get(record, K_daily_data), K_date).items
ColumnOf(record, j) == Get(Get(record, K_daily_data), DailyKeys[j]).items
EqualLengths(record) ==
  \A j \in 1..6 : Len(ColumnOf(record, j)) = Len(DatesOf(record))

\* The number of Interval steps in the half-open range [Time, TimeEnd).
StepsOf(up) ==
  IF up.TimeEnd <= up.Time THEN 0
  ELSE (up.TimeEnd - up.Time + up.Interval - 1) \div up.Interval

\* C1: a store whose body lacks one of the four keys, or holds it empty, is
\* answered 400, whichever key it is and whatever the others hold.
C1_MissingParameterIs400 ==
  (IsStore /\ (\/ AbsentOrEmpty(ReqLatitude) \/ AbsentOrEmpty(ReqLongitude)
               \/ AbsentOrEmpty(ReqStart) \/ AbsentOrEmpty(ReqEnd)))
    => resp.status = 400

\* C2: a store whose upstream fetch fails, by raising or by returning an empty
\* payload, is answered 502, never 500 or 200.
C2_UpstreamFailureIs502 ==
  (IsStore /\ req.up.kind \in {"raise", "empty"}) => resp.status = 502

\* C3: a store with four present parameters, parseable latitude and longitude
\* and two valid dates with start_date after end_date is answered 400 with the
\* error "Start date must be before end date".
C3_StartAfterEndIs400 ==
  (FourParsed /\ StartAfterEnd)
    => (resp.status = 400 /\ resp.error = "Start date must be before end date")

\* C4: a GET of a name that a store answered 200 with returns 200 and a JSON
\* value equal to the record the last such store uploaded (the object store
\* being reachable for the read).
C4_RoundTrip ==
  (IsGet /\ req.gcs = "ok" /\ req.file_name \in stored)
    => (resp.status = 200 /\ resp.json = uploaded[req.file_name])

C4_Witness ==
  /\ IsGet /\ resp.status = 200 /\ nstores >= 2 /\ Cardinality(stored) = 1
  /\ Len(DatesOf(resp.json)) > 0

\* C5: from an empty bucket, the list returns 200 with exactly the file_name
\* values of the stores that answered 200 (the object store being reachable
\* for the listing).
C5_ListIsStored ==
  (IsList /\ req.gcs = "ok") => (resp.status = 200 /\ resp.files = stored)

C5_Witness == IsList /\ resp.status = 200 /\ Cardinality(resp.files) = 2

\* C6: a GET answers 404 "File not found." exactly when no object has that
\* name: never 404 for a name a successful store wrote, never 200 for a name
\* that was never stored.
C6_NotFoundIffAbsent ==
  IsGet =>
    /\ resp.status = 404 => (resp.error = "File not found." /\ req.file_name \notin stored)
    /\ resp.status = 200 => req.file_name \in stored
    /\ req.gcs = "ok" => (resp.status = 404 <=> req.file_name \notin DOMAIN bucket)
    /\ req.gcs = "ok" => resp.status \in {200, 404}

C6_Witness == IsGet /\ resp.status = 404 /\ stored # {}

\* C7: every persisted record has a date array and six columns of one length,
\* and a store whose upstream block has a column whose length disagrees with
\* the number of generated dates fails with 500 instead of storing.
C7_EqualLengthsOrFail ==
  /\ \A k \in DOMAIN uploaded : EqualLengths(uploaded[k])
  /\ (IsStore /\ req.up.kind = "ok"
      /\ \E j \in 1..6 : Len(req.up.Variables[j]) # StepsOf(req.up))
       => resp.status = 500

C9_WellFormedAccepted ==
  (FourParsed /\ ~StartAfterEnd) => (resp.status # 400 /\ req.up.kind # "nocall")

\* C10: a store that answers anything but 200 leaves the bucket as it was, and
\* a store that answers 200 changes only the object at the returned file_name.
C10_StoreFrame ==
  [][(req'.op = "store" /\ nstores' = nstores + 1) =>
       /\ resp'.status # 200 => bucket' = bucket
       /\ resp'.status = 200 =>
            /\ DOMAIN bucket' = DOMAIN bucket \cup {resp'.file_name}
            /\ \A k \in DOMAIN bucket \ {resp'.file_name} : bucket'[k] = bucket[k]]_vars

C10_Witness ==
  /\ IsStore /\ resp.status = 500 /\ req.gcs = "raise" /\ Cardinality(DOMAIN bucket) = 1

====
